---------------------------- MODULE Spec2Model ----------------------------
(***************************************************************************)
(* ctx_guard evaluation harness: the quality runner                        *)
(* (src/evals/quality/runner.py) and the speed runner                      *)
(* (src/evals/speed/runner.py).                                            *)
(*                                                                         *)
(* Text is a sequence of symbols.  A symbol stands for a fixed piece of    *)
(* text ("build failed", "--force-summary", a newline, ...); the string    *)
(* constants of the code are fixed sequences of symbols, `x in y` is       *)
(* contiguous-subsequence search and str.lower() maps every symbol to its  *)
(* lower-case form.                                                        *)
(*                                                                         *)
(* Floating-point scores are exact rationals [n, d] in lowest terms; on    *)
(* the values the scorer produces, the float comparisons with 0.7 and 0.5  *)
(* agree with the exact ones.                                              *)
(***************************************************************************)
EXTENDS Integers, Sequences, FiniteSets, TLC

VARIABLES
    runner,            \* which script runs: "quality" or "speed"
    config_present,    \* whether the config.json given to main() exists
    pc,                \* control position
    exitStatus,        \* process exit status once the script has ended, else "none"
    mi, ci, si,        \* loop positions: model, config file, scenario
    scenarios,         \* challenge_files (quality) or size_factors (speed)
    challenge,         \* quality: the challenge loaded for the scenario
    header,            \* whether the result file's header line has been written
    rows,              \* the result file's rows, in file order
    tempFiles,         \* speed: temporary files that exist on disk
    created,           \* speed: every temporary file the run has created
    test_file,         \* speed: the orchestrator's local of the same name
    force_summary,     \* run_command's argument
    attempts,          \* the invocations run_command has made in this call: flag, how each ended
    result,            \* what the latest invocation produced (the Invocation Result)
    stdout, stderr, exit_code,          \* run_command's locals
    output_file, used_raw_output,       \* run_command's classification
    evaluation, needs_full_output,      \* the orchestrator's locals
    errors             \* scenarios whose exception the orchestrator caught and printed

vars == <<runner, config_present, pc, exitStatus, mi, ci, si, scenarios, challenge, header, rows, tempFiles,
          created, test_file, force_summary, attempts, result, stdout, stderr, exit_code,
          output_file, used_raw_output, evaluation, needs_full_output, errors>>

-----------------------------------------------------------------------------
(* Bounds                                                                  *)

MaxOut == 1          \* longest standard output of a child process, in symbols
MaxErr == 1          \* longest standard error of a child process, in symbols
MaxSummary == 3      \* longest summary handed to the scorer, in symbols
MaxPhrases == 2      \* most key phrases of a challenge
MaxLines == 3          \* lines of an output that announces artifact files

-----------------------------------------------------------------------------
(* Text                                                                    *)

NL == "\n"

\* str.lower(), symbol by symbol
LowerSym(c) ==
    CASE c = "--FORCE-SUMMARY" -> "--force-summary"
      [] c = "Output shorter than" -> "output shorter than"
      [] c = "Returning raw output" -> "returning raw output"
      [] c = "Build Failed" -> "build failed"
      [] c = "ENOENT" -> "enoent"
      [] OTHER -> c

Lower(s) == [i \in 1..Len(s) |-> LowerSym(s[i])]

\* Python's `needle in hay` on strings
In(needle, hay) ==
    \E i \in 0..(Len(hay) - Len(needle)) :
        SubSeq(hay, i + 1, i + Len(needle)) = needle

\* every text of at most n symbols over alphabet A
TextsUpTo(A, n) == UNION {[1..k -> A] : k \in 0..n}


-----------------------------------------------------------------------------
(* Scores: Python floats as exact rationals                                *)

RECURSIVE Gcd(_, _)
Gcd(a, b) == IF b = 0 THEN a ELSE Gcd(b, a % b)

Frac(n, d) == LET g == Gcd(n, d) IN [n |-> n \div g, d |-> d \div g]

FAdd(a, b) == Frac(a.n * b.d + b.n * a.d, a.d * b.d)
FMul(a, b) == Frac(a.n * b.n, a.d * b.d)
FGe(a, b) == a.n * b.d >= b.n * a.d
FLt(a, b) == a.n * b.d < b.n * a.d

Zero == Frac(0, 1)
One == Frac(1, 1)

-----------------------------------------------------------------------------
(* Quality Scorer: evaluate_summary_quality                                *)

\* the issue test without lower-casing the summary
IssueFoundCaseSensitive(summary, ch) ==
    IF Lower(ch.expected_issue) # <<>>
    THEN In(Lower(ch.expected_issue), summary)
    ELSE TRUE

\* challenge.get("expected_issue", "").lower() in summary_lower, True when empty
IssueFound(summary, ch) ==
    IF Lower(ch.expected_issue) # <<>>
    THEN In(Lower(ch.expected_issue), Lower(summary))
    ELSE TRUE

SolutionFound(summary, ch) ==
    IF Lower(ch.expected_solution) # <<>>
    THEN In(Lower(ch.expected_solution), Lower(summary))
    ELSE TRUE

\* sum(1 for phrase in key_phrases if phrase.lower() in summary_lower)
PhrasesFound(summary, ch) ==
    Cardinality({i \in 1..Len(ch.key_phrases) :
                    In(Lower(ch.key_phrases[i]), Lower(summary))})

\* the division guarded with 0.0 instead of 1.0
PhraseCoverageEmptyZero(found, key_phrases) ==
    IF key_phrases # <<>> THEN Frac(found, Len(key_phrases)) ELSE Zero

\* phrases_found / len(key_phrases) if key_phrases else 1.0
PhraseCoverage(found, key_phrases) ==
    IF key_phrases # <<>> THEN Frac(found, Len(key_phrases)) ELSE One

\* the rubric with the phrase weight 0.4
QualityScoreHeavyPhrases(issue_found, solution_found, phrase_coverage) ==
    LET s0 == Frac(0, 1)
        s1 == IF issue_found THEN FAdd(s0, Frac(2, 5)) ELSE s0
        s2 == IF solution_found THEN FAdd(s1, Frac(2, 5)) ELSE s1
    IN  FAdd(s2, FMul(phrase_coverage, Frac(2, 5)))

\* quality_score = 0.0; += 0.4 if issue_found; += 0.4 if solution_found;
\* += phrase_coverage * 0.2
QualityScore(issue_found, solution_found, phrase_coverage) ==
    LET s0 == Zero
        s1 == IF issue_found THEN FAdd(s0, Frac(2, 5)) ELSE s0
        s2 == IF solution_found THEN FAdd(s1, Frac(2, 5)) ELSE s1
    IN  FAdd(s2, FMul(phrase_coverage, Frac(1, 5)))

\* can_solve with the threshold at 0.9
CanSolveHighThreshold(quality_score) == FGe(quality_score, Frac(9, 10))

\* can_solve = quality_score >= 0.7
CanSolve(quality_score) == FGe(quality_score, Frac(7, 10))

evaluate_summary_quality(summary, ch) ==
    LET issue_found == IssueFound(summary, ch)
        solution_found == SolutionFound(summary, ch)
        phrases_found == PhrasesFound(summary, ch)
        phrase_coverage == PhraseCoverage(phrases_found, ch.key_phrases)
        quality_score == QualityScore(issue_found, solution_found, phrase_coverage)
    IN  [can_solve |-> CanSolve(quality_score),
         quality_score |-> quality_score,
         issue_found |-> issue_found,
         solution_found |-> solution_found,
         phrase_coverage |-> phrase_coverage,
         phrases_found |-> phrases_found,
         total_phrases |-> Len(ch.key_phrases)]

-----------------------------------------------------------------------------
(* Response Classifier: the tail of the quality runner's run_command       *)

\* smallest i >= from with hay[i .. i+Len(needle)-1] = needle, 0 when none
RECURSIVE FindFrom(_, _, _)
FindFrom(needle, hay, from) ==
    IF from + Len(needle) - 1 > Len(hay) THEN 0
    ELSE IF SubSeq(hay, from, from + Len(needle) - 1) = needle THEN from
    ELSE FindFrom(needle, hay, from + 1)

\* str.split(sep), sep not empty
RECURSIVE Split(_, _)
Split(s, sep) ==
    LET i == FindFrom(sep, s, 1)
    IN  IF i = 0 THEN <<s>>
        ELSE <<SubSeq(s, 1, i - 1)>> \o Split(SubSeq(s, i + Len(sep), Len(s)), sep)

IsSpace(c) == c \in {" ", "\n", "\t"}

\* str.strip()
RECURSIVE Strip(_)
Strip(s) ==
    IF s = <<>> THEN s
    ELSE IF IsSpace(Head(s)) THEN Strip(Tail(s))
    ELSE IF IsSpace(s[Len(s)]) THEN Strip(SubSeq(s, 1, Len(s) - 1))
    ELSE s

CompleteMarker == <<"complete output is ", "available at">>   \* 'complete output is available at'
AvailableAt == <<"available at", " ">>                        \* 'available at '

\* the loop without its break: the last line that carries the marker decides
RECURSIVE ScanLinesLastMatch(_)
ScanLinesLastMatch(lines) ==
    IF lines = <<>> THEN <<>>
    ELSE LET later == ScanLinesLastMatch(Tail(lines))
         IN  IF later # <<>> \/ \E i \in 1..Len(Tail(lines)) : In(CompleteMarker, Tail(lines)[i])
             THEN later
             ELSE IF In(CompleteMarker, Head(lines))
                  THEN LET parts == Split(Head(lines), AvailableAt)
                       IN  IF Len(parts) > 1 THEN <<Strip(parts[2])>> ELSE <<>>
                  ELSE <<>>

\* the loop over stdout.split('\n'): the first line that carries the marker
\* decides; << >> is None, <<p>> is the path p
RECURSIVE ScanLines(_)
ScanLines(lines) ==
    IF lines = <<>> THEN <<>>
    ELSE IF In(CompleteMarker, Head(lines))
         THEN LET parts == Split(Head(lines), AvailableAt)
              IN  IF Len(parts) > 1 THEN <<Strip(parts[2])>> ELSE <<>>
         ELSE ScanLines(Tail(lines))

OutputFile(out) == ScanLines(Split(out, <<NL>>))

\* the detection without .lower()
UsedRawOutputCaseSensitive(out) ==
    /\ In(<<"output shorter than">>, out)
    /\ In(<<"returning raw output">>, out)

\* "output shorter than" in summary_lower and "returning raw output" in summary_lower
UsedRawOutput(out) ==
    /\ In(<<"output shorter than">>, Lower(out))
    /\ In(<<"returning raw output">>, Lower(out))

-----------------------------------------------------------------------------
(* The orchestrator's evaluation of one returned result                    *)
(* (run_quality_evaluation, the if/else after run_command)                 *)

\* the zeroed evaluation substituted for a raw-output response
RawEvaluation(ch) ==
    [can_solve |-> FALSE,
     quality_score |-> Zero,
     issue_found |-> FALSE,
     solution_found |-> FALSE,
     phrase_coverage |-> Zero,
     phrases_found |-> 0,
     total_phrases |-> Len(ch.key_phrases)]

\* the evaluation without the raw-output branch
ScenarioEvaluationAlwaysScored(out, raw, ch) == evaluate_summary_quality(out, ch)

ScenarioEvaluation(out, raw, ch) ==
    IF raw THEN RawEvaluation(ch) ELSE evaluate_summary_quality(out, ch)

\* needs_full_output taken from the can_solve verdict
NeedsFullOutputFromCanSolve(raw, ev) == raw \/ ~ev.can_solve

\* needs_full_output: True for raw output, else quality_score < 0.5
NeedsFullOutput(raw, ev) ==
    IF raw THEN TRUE ELSE FLt(ev.quality_score, Frac(1, 2))

-----------------------------------------------------------------------------
(* The subject CLI as a black box: what one execute(use_force) can end in  *)

OutTokens == {"--force-summary", "build failed"}
ErrTokens == {"--FORCE-SUMMARY"}

\* outputs of the subject CLI longer than MaxOut: the raw-output notice (whole,
\* with a summary line before it, and cut after its first phrase) and the
\* line that announces the artifact file
NoticeTexts ==
    {<<"Output shorter than", "returning raw output">>,
     <<"build failed", "\n", "output shorter than", "Returning raw output">>,
     <<"output shorter than">>,
     <<"The ", "complete output is ", "available at", " ", "/tmp/x.out">>}

StdoutTexts == TextsUpTo(OutTokens, MaxOut) \cup NoticeTexts
StderrTexts == TextsUpTo(ErrTokens, MaxErr)
ReturnCodes == {0, 1}

\* a child that exits: subprocess.run returns a CompletedProcess
Completions ==
    [kind : {"exit"}, stdout : StdoutTexts, stderr : StderrTexts,
     returncode : ReturnCodes, bytes : {FALSE}]

\* a child that exceeds the timeout: subprocess.run raises TimeoutExpired with
\* the partial output.  On POSIX the partial output is bytes, or None when
\* nothing was read (bytes = TRUE; an empty text is None); on Windows it is
\* str (bytes = FALSE).
Timeouts ==
    [kind : {"timeout"}, stdout : StdoutTexts, stderr : StderrTexts,
     returncode : {124}, bytes : BOOLEAN]

Outcomes == Completions \cup Timeouts

-----------------------------------------------------------------------------
(* Fallback Negotiator: run_command of both runners                        *)

TimeoutExitCode == 124

ForceFlag == <<"--force-summary">>
UnexpectedArg == <<"unexpected argument '", "--force-summary", "'">>

\* combined = f"{stdout}\n{stderr}".lower(); either marker in combined
MarkerFound(out, err) ==
    LET combined == Lower(out \o <<NL>> \o err)
    IN  In(UnexpectedArg, combined) \/ In(ForceFlag, combined)

\* the retry decision without its force_summary test
ShouldRetryIgnoringFlag(code, force, out, err) ==
    code # 0 /\ MarkerFound(out, err)

\* if exit_code != 0 and force_summary: ... if <marker>: retry
ShouldRetry(code, force, out, err) ==
    code # 0 /\ force /\ MarkerFound(out, err)

Invocation(use_force, o) == [use_force |-> use_force, kind |-> o.kind]

\* An exception that leaves run_command ends its frame: pc = "raised", and the
\* locals are unbound again.

\* quality: str + bytes raises TypeError in the timeout handler
ConcatRaises(o) == o.bytes /\ (o.stdout # <<>> \/ o.stderr # <<>>)

\* quality, the first attempt: try: execute(force_summary) / except TimeoutExpired,
\* then the retry decision
QExecFirst ==
    /\ runner = "quality" /\ pc = "first"
    /\ \E o \in Outcomes :
        /\ attempts' = Append(attempts, Invocation(force_summary, o))
        /\ result' = o
        /\ IF o.kind = "timeout" /\ ConcatRaises(o)
           THEN /\ pc' = "raised"
                /\ stdout' = <<>> /\ stderr' = <<>> /\ exit_code' = 0
           ELSE LET out == IF o.kind = "timeout"
                           THEN o.stdout \o <<NL>> \o o.stderr ELSE o.stdout
                    err == IF o.kind = "timeout" THEN <<>> ELSE o.stderr
                    code == IF o.kind = "timeout" THEN TimeoutExitCode ELSE o.returncode
                IN  /\ stdout' = out
                    /\ stderr' = err
                    /\ exit_code' = code
                    /\ pc' = IF ShouldRetry(code, force_summary, out, err)
                             THEN "retry" ELSE "classify"
    /\ UNCHANGED <<runner, config_present, exitStatus, mi, ci, si, scenarios, challenge, header, rows,
                   tempFiles, created, test_file, force_summary, output_file,
                   used_raw_output, evaluation, needs_full_output, errors>>

\* the retry rebinding stderr and exit_code only
RetryResultKeepsStdout(first_stdout, first_stderr, first_code, o) ==
    [stdout |-> first_stdout, stderr |-> o.stderr, exit_code |-> o.returncode]

\* stdout, stderr, exit_code = execute(False): all three from the retry
RetryResult(first_stdout, first_stderr, first_code, o) ==
    [stdout |-> o.stdout, stderr |-> o.stderr, exit_code |-> o.returncode]

\* quality, the retry: stdout, stderr, exit_code = execute(False), outside any try
QExecRetry ==
    /\ runner = "quality" /\ pc = "retry"
    /\ \E o \in Outcomes :
        /\ attempts' = Append(attempts, Invocation(FALSE, o))
        /\ result' = o
        /\ IF o.kind = "timeout"
           THEN /\ pc' = "raised"
                /\ stdout' = <<>> /\ stderr' = <<>> /\ exit_code' = 0
           ELSE LET r == RetryResult(stdout, stderr, exit_code, o)
                IN  /\ stdout' = r.stdout
                    /\ stderr' = r.stderr
                    /\ exit_code' = r.exit_code
                    /\ pc' = "classify"
    /\ UNCHANGED <<runner, config_present, exitStatus, mi, ci, si, scenarios, challenge, header, rows,
                   tempFiles, created, test_file, force_summary, output_file,
                   used_raw_output, evaluation, needs_full_output, errors>>

\* quality: classify the terminal stdout and return
QClassify ==
    /\ runner = "quality" /\ pc = "classify"
    /\ output_file' = OutputFile(stdout)
    /\ used_raw_output' = UsedRawOutput(stdout)
    /\ pc' = "returned"
    /\ UNCHANGED <<runner, config_present, exitStatus, mi, ci, si, scenarios, challenge, header, rows,
                   tempFiles, created, test_file, force_summary, attempts, result, stdout,
                   stderr, exit_code, evaluation, needs_full_output, errors>>

\* bytes in an f-string are rendered as their repr
Fmt(text, bytes) == IF bytes /\ text # <<>> THEN <<"b'">> \o text \o <<"'">> ELSE text

TimeoutMessage(o) ==
    <<"Command timed out after 300s. stdout: ">> \o Fmt(o.stdout, o.bytes)
        \o <<" stderr: ">> \o Fmt(o.stderr, o.bytes)

\* speed, the first attempt: a timeout returns at once; otherwise the retry
\* decision, and without a retry the return of result.stdout, result.returncode
SExecFirst ==
    /\ runner = "speed" /\ pc = "first"
    /\ \E o \in Outcomes :
        /\ attempts' = Append(attempts, Invocation(force_summary, o))
        /\ result' = o
        /\ IF o.kind = "timeout"
           THEN /\ stdout' = TimeoutMessage(o)
                /\ stderr' = <<>>
                /\ exit_code' = TimeoutExitCode
                /\ pc' = "returned"
           ELSE /\ stdout' = o.stdout
                /\ stderr' = o.stderr
                /\ exit_code' = o.returncode
                /\ pc' = IF ShouldRetry(o.returncode, force_summary, o.stdout, o.stderr)
                         THEN "retry" ELSE "returned"
    /\ UNCHANGED <<runner, config_present, exitStatus, mi, ci, si, scenarios, challenge, header, rows,
                   tempFiles, created, test_file, force_summary, output_file,
                   used_raw_output, evaluation, needs_full_output, errors>>

\* speed, the retry: result = execute(False), outside the try; then the return
SExecRetry ==
    /\ runner = "speed" /\ pc = "retry"
    /\ \E o \in Outcomes :
        /\ attempts' = Append(attempts, Invocation(FALSE, o))
        /\ result' = o
        /\ IF o.kind = "timeout"
           THEN /\ pc' = "raised"
                /\ stdout' = <<>> /\ stderr' = <<>> /\ exit_code' = 0
           ELSE LET r == RetryResult(stdout, stderr, exit_code, o)
                IN  /\ stdout' = r.stdout
                    /\ stderr' = r.stderr
                    /\ exit_code' = r.exit_code
                    /\ pc' = "returned"
    /\ UNCHANGED <<runner, config_present, exitStatus, mi, ci, si, scenarios, challenge, header, rows,
                   tempFiles, created, test_file, force_summary, output_file,
                   used_raw_output, evaluation, needs_full_output, errors>>

-----------------------------------------------------------------------------
(* The sweep's inputs: config.json, evals/configs, the challenges directory *)

Models == <<"m1", "m2">>                        \* config["models"], in order
ConfigFilesOf(m) ==                             \* model_config.get("config_files", [])
    IF m = "m1" THEN <<>> ELSE <<"missing.toml", "a.toml">>
ExistingConfigs == {"a.toml"}                   \* files present in evals/configs
ChallengeFiles == <<"c1", "c2">>                \* sorted(challenges_dir.glob("*.json"))
SizeFactors == <<"0.5", "1.0">>                 \* config.get("size_factors", ...)

NoChallenge ==
    [command |-> "", expected_issue |-> <<>>, expected_solution |-> <<>>,
     key_phrases |-> <<>>]

\* what load_challenge can read from a challenge file
SweepChallenges ==
    {NoChallenge,
     [command |-> "make", expected_issue |-> <<>>, expected_solution |-> <<>>,
      key_phrases |-> <<>>],
     [command |-> "make", expected_issue |-> <<"Build Failed">>,
      expected_solution |-> <<"missing dependency">>,
      key_phrases |-> << <<"build failed">> >>]}

-----------------------------------------------------------------------------
(* Result rows: write_result_file of both runners                          *)

SummaryLimit == 500

CleanSym(c) == IF c = "\n" THEN " " ELSE IF c = "," THEN ";" ELSE c

\* summary.replace('\n', ' ').replace(',', ';')[:500]
Clean(summary) ==
    LET t == [i \in 1..Len(summary) |-> CleanSym(summary[i])]
    IN  SubSeq(t, 1, IF Len(t) < SummaryLimit THEN Len(t) ELSE SummaryLimit)

QRow(model, config_file, challenge_name, can_solve, needs_full, quality_score, summary, code) ==
    [model |-> model, config_file |-> config_file, challenge |-> challenge_name,
     can_solve |-> can_solve, needs_full_output |-> needs_full,
     quality_score |-> quality_score, exit_code |-> code, summary |-> Clean(summary)]

SRow(model, config_file, size_factor, summary, code) ==
    [model |-> model, config_file |-> config_file, size_factor |-> size_factor,
     summary_length |-> Len(summary), exit_code |-> code, summary |-> Clean(summary)]

-----------------------------------------------------------------------------
(* Run Orchestrators: main, run_quality_evaluation, run_speed_evaluation   *)

Model == Models[mi]
ConfigFile == ConfigFilesOf(Model)[ci]
Scenario == [model |-> Model, config_file |-> ConfigFile, scenario |-> scenarios[si]]

\* main(): a missing config.json ends the process with status 1
Main ==
    /\ pc = "main"
    /\ IF config_present
       THEN pc' = "start" /\ UNCHANGED exitStatus
       ELSE pc' = "exited" /\ exitStatus' = 1
    /\ UNCHANGED <<runner, config_present, mi, ci, si, scenarios, challenge, header, rows,
                   tempFiles, created, test_file, force_summary, attempts, result, stdout,
                   stderr, exit_code, output_file, used_raw_output, evaluation,
                   needs_full_output, errors>>

\* run_*_evaluation up to the loops: the header line, the scenario list; the
\* quality runner returns when there are no challenge files
Start ==
    /\ pc = "start"
    /\ header' = TRUE
    /\ rows' = <<>>
    /\ \E files \in (IF runner = "quality" THEN {<<>>, ChallengeFiles} ELSE {SizeFactors}) :
        /\ scenarios' = files
        /\ IF runner = "quality" /\ files = <<>>
           THEN pc' = "exited" /\ exitStatus' = 0 /\ UNCHANGED mi
           ELSE pc' = "models" /\ mi' = 1 /\ UNCHANGED exitStatus
    /\ UNCHANGED <<runner, config_present, ci, si, challenge, tempFiles, created,
                   test_file, force_summary, attempts, result, stdout, stderr, exit_code,
                   output_file, used_raw_output, evaluation, needs_full_output, errors>>

\* for model_name, model_config in models.items(): a model without config
\* files is skipped; after the last model the run ends
NextModel ==
    /\ pc = "models"
    /\ IF mi > Len(Models)
       THEN pc' = "exited" /\ exitStatus' = 0 /\ UNCHANGED <<mi, ci>>
       ELSE IF ConfigFilesOf(Model) = <<>>
            THEN mi' = mi + 1 /\ UNCHANGED <<pc, ci, exitStatus>>
            ELSE ci' = 1 /\ pc' = "configs" /\ UNCHANGED <<mi, exitStatus>>
    /\ UNCHANGED <<runner, config_present, si, scenarios, challenge, header, rows,
                   tempFiles, created, test_file, force_summary, attempts, result, stdout,
                   stderr, exit_code, output_file, used_raw_output, evaluation,
                   needs_full_output, errors>>

\* the config loop without the exists() test
NextConfigNoExistsCheck ==
    /\ pc = "configs"
    /\ IF ci > Len(ConfigFilesOf(Model))
       THEN mi' = mi + 1 /\ pc' = "models" /\ UNCHANGED <<ci, si>>
       ELSE si' = 1 /\ pc' = "scenarios" /\ UNCHANGED <<mi, ci>>
    /\ UNCHANGED <<runner, config_present, exitStatus, scenarios, challenge, header, rows,
                   tempFiles, created, test_file, force_summary, attempts, result, stdout,
                   stderr, exit_code, output_file, used_raw_output, evaluation,
                   needs_full_output, errors>>

\* for config_file in config_files: a config file that does not exist is skipped
NextConfig ==
    /\ pc = "configs"
    /\ IF ci > Len(ConfigFilesOf(Model))
       THEN mi' = mi + 1 /\ pc' = "models" /\ UNCHANGED <<ci, si>>
       ELSE IF ConfigFile \notin ExistingConfigs
            THEN ci' = ci + 1 /\ UNCHANGED <<pc, mi, si>>
            ELSE si' = 1 /\ pc' = "scenarios" /\ UNCHANGED <<mi, ci>>
    /\ UNCHANGED <<runner, config_present, exitStatus, scenarios, challenge, header, rows,
                   tempFiles, created, test_file, force_summary, attempts, result, stdout,
                   stderr, exit_code, output_file, used_raw_output, evaluation,
                   needs_full_output, errors>>

NoResult == [kind |-> "none", stdout |-> <<>>, stderr |-> <<>>, returncode |-> 0, bytes |-> FALSE]

\* a call of run_command: its argument, fresh locals
EnterRunCommand(force) ==
    /\ force_summary' = force
    /\ attempts' = <<>>
    /\ result' = NoResult
    /\ stdout' = <<>> /\ stderr' = <<>> /\ exit_code' = 0
    /\ output_file' = <<>> /\ used_raw_output' = FALSE
    /\ pc' = "first"

\* quality, for challenge_file in challenge_files: load_challenge (outside
\* the try: its exception ends the run), skip a challenge without a command,
\* else enter the try and call run_command
QNextChallenge ==
    /\ runner = "quality" /\ pc = "scenarios"
    /\ IF si > Len(scenarios)
       THEN /\ ci' = ci + 1 /\ pc' = "configs"
            /\ UNCHANGED <<si, challenge, exitStatus, force_summary, attempts, result, stdout,
                           stderr, exit_code, output_file, used_raw_output>>
       ELSE \/ /\ pc' = "crashed" /\ exitStatus' = 1
               /\ UNCHANGED <<ci, si, challenge, force_summary, attempts, result, stdout,
                              stderr, exit_code, output_file, used_raw_output>>
            \/ \E ch \in SweepChallenges :
                /\ challenge' = ch
                /\ IF ch.command = ""
                   THEN /\ si' = si + 1
                        /\ UNCHANGED <<pc, force_summary, attempts, result, stdout, stderr,
                                       exit_code, output_file, used_raw_output>>
                   ELSE EnterRunCommand(TRUE) /\ UNCHANGED si
                /\ UNCHANGED <<ci, exitStatus>>
    /\ UNCHANGED <<runner, config_present, mi, scenarios, header, rows, tempFiles,
                   created, test_file, evaluation, needs_full_output, errors>>

\* quality, after run_command returned: evaluate, write the row
QRecord ==
    /\ runner = "quality" /\ pc = "returned"
    /\ LET ev == ScenarioEvaluation(stdout, used_raw_output, challenge)
           full == NeedsFullOutput(used_raw_output, ev)
       IN  /\ evaluation' = ev
           /\ needs_full_output' = full
           /\ rows' = Append(rows, QRow(Model, ConfigFile, scenarios[si], ev.can_solve,
                                        full, ev.quality_score, stdout, exit_code))
    /\ si' = si + 1
    /\ pc' = "scenarios"
    /\ UNCHANGED <<runner, config_present, exitStatus, mi, ci, scenarios, challenge, header,
                   tempFiles, created, test_file, force_summary, attempts, result, stdout,
                   stderr, exit_code, output_file, used_raw_output, errors>>

\* quality, except Exception as e: print, go on with the next challenge
QExcept ==
    /\ runner = "quality" /\ pc = "raised"
    /\ errors' = Append(errors, Scenario)
    /\ si' = si + 1
    /\ pc' = "scenarios"
    /\ UNCHANGED <<runner, config_present, exitStatus, mi, ci, scenarios, challenge, header,
                   rows, tempFiles, created, test_file, force_summary, attempts, result, stdout,
                   stderr, exit_code, output_file, used_raw_output, evaluation,
                   needs_full_output>>

\* the next name tempfile.NamedTemporaryFile gives
FreshFile == Cardinality(created) + 1

\* speed, for size_factor in size_factors: write_test_file and getsize run
\* outside the try, so an exception there ends the run; NamedTemporaryFile
\* (delete=False) creates the file before f.write can fail
SNextSize ==
    /\ runner = "speed" /\ pc = "scenarios"
    /\ IF si > Len(scenarios)
       THEN /\ ci' = ci + 1 /\ pc' = "configs"
            /\ UNCHANGED <<exitStatus, tempFiles, created, test_file, force_summary,
                           attempts, result, stdout, stderr, exit_code, output_file,
                           used_raw_output>>
       ELSE \/ /\ pc' = "crashed" /\ exitStatus' = 1      \* raised before the file exists
               /\ UNCHANGED <<ci, tempFiles, created, test_file, force_summary, attempts, result,
                              stdout, stderr, exit_code, output_file, used_raw_output>>
            \/ /\ pc' = "crashed" /\ exitStatus' = 1      \* f.write raised
               /\ created' = created \cup {FreshFile}
               /\ tempFiles' = tempFiles \cup {FreshFile}
               /\ UNCHANGED <<ci, test_file, force_summary, attempts, result, stdout, stderr,
                              exit_code, output_file, used_raw_output>>
            \/ /\ created' = created \cup {FreshFile}
               /\ tempFiles' = tempFiles \cup {FreshFile}
               /\ test_file' = FreshFile
               /\ EnterRunCommand(TRUE)
               /\ UNCHANGED <<ci, exitStatus>>
    /\ UNCHANGED <<runner, config_present, mi, si, scenarios, challenge, header, rows,
                   evaluation, needs_full_output, errors>>

\* speed, after run_command returned: write the row; then the finally clause
SRecord ==
    /\ runner = "speed" /\ pc = "returned"
    /\ rows' = Append(rows, SRow(Model, ConfigFile, scenarios[si], stdout, exit_code))
    /\ pc' = "finally"
    /\ UNCHANGED <<runner, config_present, exitStatus, mi, ci, si, scenarios, challenge,
                   header, tempFiles, created, test_file, force_summary, attempts, result, stdout,
                   stderr, exit_code, output_file, used_raw_output, evaluation,
                   needs_full_output, errors>>

\* speed, except Exception as e: print; then the finally clause
SExcept ==
    /\ runner = "speed" /\ pc = "raised"
    /\ errors' = Append(errors, Scenario)
    /\ pc' = "finally"
    /\ UNCHANGED <<runner, config_present, exitStatus, mi, ci, si, scenarios, challenge,
                   header, rows, tempFiles, created, test_file, force_summary, attempts, result,
                   stdout, stderr, exit_code, output_file, used_raw_output, evaluation,
                   needs_full_output>>

\* speed, finally: os.unlink(test_file); go on with the next size factor
SFinally ==
    /\ runner = "speed" /\ pc = "finally"
    /\ tempFiles' = tempFiles \ {test_file}
    /\ si' = si + 1
    /\ pc' = "scenarios"
    /\ UNCHANGED <<runner, config_present, exitStatus, mi, ci, scenarios, challenge, header,
                   rows, created, test_file, force_summary, attempts, result, stdout, stderr,
                   exit_code, output_file, used_raw_output, evaluation, needs_full_output,
                   errors>>

-----------------------------------------------------------------------------
(* Specification of a run of either runner                                 *)

NoEvaluation == RawEvaluation(NoChallenge)

Init ==
    /\ runner \in {"quality", "speed"}
    /\ config_present \in BOOLEAN
    /\ pc = "main"
    /\ exitStatus = "none"
    /\ mi = 0 /\ ci = 0 /\ si = 0
    /\ scenarios = <<>>
    /\ challenge = NoChallenge
    /\ header = FALSE
    /\ rows = <<>>
    /\ tempFiles = {} /\ created = {}
    /\ test_file = 0
    /\ force_summary = TRUE
    /\ attempts = <<>>
    /\ result = NoResult
    /\ stdout = <<>> /\ stderr = <<>> /\ exit_code = 0
    /\ output_file = <<>> /\ used_raw_output = FALSE
    /\ evaluation = NoEvaluation /\ needs_full_output = FALSE
    /\ errors = <<>>

Next ==
    \/ Main \/ Start \/ NextModel \/ NextConfig
    \/ QNextChallenge \/ QExecFirst \/ QExecRetry \/ QClassify \/ QRecord \/ QExcept
    \/ SNextSize \/ SExecFirst \/ SExecRetry \/ SRecord \/ SExcept \/ SFinally

Spec == Init /\ [][Next]_vars

-----------------------------------------------------------------------------
(* Specification of one call of run_command, with either value of its      *)
(* force_summary argument                                                  *)

InitCall ==
    /\ runner \in {"quality", "speed"}
    /\ config_present = TRUE
    /\ pc = "first"
    /\ exitStatus = "none"
    /\ mi = 2 /\ ci = 2 /\ si = 1
    /\ scenarios = IF runner = "quality" THEN ChallengeFiles ELSE SizeFactors
    /\ challenge \in SweepChallenges \ {NoChallenge}
    /\ header = TRUE
    /\ rows = <<>>
    /\ tempFiles = {} /\ created = {}
    /\ test_file = 0
    /\ force_summary \in BOOLEAN
    /\ attempts = <<>>
    /\ result = NoResult
    /\ stdout = <<>> /\ stderr = <<>> /\ exit_code = 0
    /\ output_file = <<>> /\ used_raw_output = FALSE
    /\ evaluation = NoEvaluation /\ needs_full_output = FALSE
    /\ errors = <<>>

NextCall == QExecFirst \/ QExecRetry \/ QClassify \/ SExecFirst \/ SExecRetry

SpecCall == InitCall /\ [][NextCall]_vars

-----------------------------------------------------------------------------
(* Specification of the classification and recording of one returned       *)
(* result of the quality runner, over summaries and challenges             *)

ScoreTokens ==
    {"build failed", "Build Failed", "missing dependency", "npm install", "ENOENT",
     "output shorter than", "Returning raw output"}

ScoreTexts == TextsUpTo(ScoreTokens, MaxSummary)

KeyPhrases == {<<"npm install">>, <<"ENOENT">>}

ScoreChallenges ==
    [command : {"make"},
     expected_issue : {<<>>, <<"Build Failed">>},
     expected_solution : {<<>>, <<"missing dependency">>, <<"npm install", "missing dependency">>},
     key_phrases : TextsUpTo(KeyPhrases, MaxPhrases)]

InitScore ==
    /\ runner = "quality"
    /\ config_present = TRUE
    /\ pc = "classify"
    /\ exitStatus = "none"
    /\ mi = 2 /\ ci = 2 /\ si = 1
    /\ scenarios = ChallengeFiles
    /\ challenge \in ScoreChallenges
    /\ header = TRUE
    /\ rows = <<>>
    /\ tempFiles = {} /\ created = {}
    /\ test_file = 0
    /\ force_summary = TRUE
    /\ stdout \in ScoreTexts
    /\ stderr = <<>> /\ exit_code = 0
    /\ attempts = <<[use_force |-> TRUE, kind |-> "exit"]>>
    /\ result = [kind |-> "exit", stdout |-> stdout, stderr |-> <<>>, returncode |-> 0,
                 bytes |-> FALSE]
    /\ output_file = <<>> /\ used_raw_output = FALSE
    /\ evaluation = NoEvaluation /\ needs_full_output = FALSE
    /\ errors = <<>>

NextScore == QClassify \/ QRecord

SpecScore == InitScore /\ [][NextScore]_vars

-----------------------------------------------------------------------------
(* Specification of the classification of one returned result of the       *)
(* quality runner, over outputs made of lines that do or do not announce   *)
(* an artifact file                                                        *)

\* the lines the subject CLI can print: a summary line, a line with the
\* delimiter but not the marker, the announcement, the announcement with
\* blanks around the path, the marker with nothing after it, and an
\* announcement that goes on with a second 'available at '
ArtifactLines ==
    {<<"build failed">>,
     <<"Log ", "available at", " ", "/tmp/y.out">>,
     <<"The ", "complete output is ", "available at", " ", "/tmp/x.out">>,
     <<"complete output is ", "available at", " ", " ", "/tmp/y.out", "\t">>,
     <<"The ", "complete output is ", "available at">>,
     <<"complete output is ", "available at", " ", "/tmp/x.out", " ", "available at", " ",
       "/tmp/y.out">>}

\* '\n'.join(ls)
RECURSIVE JoinLines(_)
JoinLines(ls) ==
    IF ls = <<>> THEN <<>>
    ELSE IF Len(ls) = 1 THEN ls[1]
    ELSE ls[1] \o <<NL>> \o JoinLines(Tail(ls))

ExtractTexts == {JoinLines(ls) : ls \in TextsUpTo(ArtifactLines, MaxLines)}

InitExtract ==
    /\ runner = "quality"
    /\ config_present = TRUE
    /\ pc = "classify"
    /\ exitStatus = "none"
    /\ mi = 2 /\ ci = 2 /\ si = 1
    /\ scenarios = ChallengeFiles
    /\ challenge \in SweepChallenges \ {NoChallenge}
    /\ header = TRUE
    /\ rows = <<>>
    /\ tempFiles = {} /\ created = {}
    /\ test_file = 0
    /\ force_summary = TRUE
    /\ stdout \in ExtractTexts
    /\ stderr = <<>> /\ exit_code = 0
    /\ attempts = <<[use_force |-> TRUE, kind |-> "exit"]>>
    /\ result = [kind |-> "exit", stdout |-> stdout, stderr |-> <<>>, returncode |-> 0,
                 bytes |-> FALSE]
    /\ output_file = <<>> /\ used_raw_output = FALSE
    /\ evaluation = NoEvaluation /\ needs_full_output = FALSE
    /\ errors = <<>>

NextExtract == QClassify \/ QRecord

SpecExtract == InitExtract /\ [][NextExtract]_vars

-----------------------------------------------------------------------------
(* Claims                                                                  *)

Last(q) == q[Len(q)]

\* the force flag's name occurs in a text, in any case
FlagInText(t) == \E i \in 1..Len(t) : LowerSym(t[i]) = "--force-summary"
OutcomeHasMarker(o) == FlagInText(o.stdout) \/ FlagInText(o.stderr)

\* C1: called with the force flag enabled, run_command (either runner) issues
\* exactly one retry when the first attempt exited non-zero with the
\* unsupported-flag marker in its stdout+stderr, and no retry when the first
\* attempt timed out or exited non-zero without the marker.  After the first
\* attempt (one invocation made, result is its outcome) the call stands
\* before its retry exactly in the first case, and it never makes more than
\* one retry.
C1_RetryOnlyOnMarkedFailure ==
    /\ Len(attempts) <= 2
    /\ (force_summary /\ Len(attempts) = 1) =>
         ((pc = "retry") <=>
             (result.kind = "exit" /\ result.returncode # 0 /\ OutcomeHasMarker(result)))

\* C2: one call of run_command issues at most two invocations; a second
\* invocation has the force flag disabled and follows a first one that had it
\* enabled; a call whose flag is disabled is never retried; once the retry
\* has been made the call never stands before an invocation again, whatever
\* the retry's exit code and output.
C2_AtMostOneRetry ==
    /\ Len(attempts) <= 2
    /\ Len(attempts) >= 1 => attempts[1].use_force = force_summary
    /\ Len(attempts) = 2 => (attempts[1].use_force /\ ~attempts[2].use_force)
    /\ ~force_summary => (Len(attempts) <= 1 /\ pc # "retry")
    /\ Len(attempts) = 2 => pc \notin {"first", "retry"}

\* C2 witness: a retry that itself failed with the marker in its output was
\* returned as the final result
C2_FailedRetryReturned ==
    /\ Len(attempts) = 2
    /\ pc = "returned"
    /\ result.returncode # 0
    /\ OutcomeHasMarker(result)
    /\ exit_code = result.returncode

TimedOut == \E i \in 1..Len(attempts) : attempts[i].kind = "timeout"

\* C3: a child that exceeds the timeout, in the first attempt or in the
\* retry, gives a completed result with exit code 124: no exception leaves
\* run_command, the timed-out invocation is the last one (no retry follows
\* it), the returned exit code is 124, and the row written for the scenario
\* carries exit_code 124.
C3_TimeoutIsCompletedResult ==
    TimedOut =>
        /\ pc # "raised"
        /\ pc # "retry"
        /\ Last(attempts).kind = "timeout"
        /\ pc \in {"classify", "returned"} => exit_code = TimeoutExitCode
        /\ pc \in {"scenarios", "finally"} =>
             (rows # <<>> /\ Last(rows).exit_code = TimeoutExitCode)

-----------------------------------------------------------------------------
(* Claims about the quality evaluation of a scenario                       *)

\* the quality runner has just written the row of the scenario it called
\* run_command for
JustRecorded ==
    /\ runner = "quality" /\ pc = "scenarios" /\ si > 1
    /\ rows # <<>>
    /\ Last(rows).model = Model
    /\ Last(rows).config_file = ConfigFile
    /\ Last(rows).challenge = scenarios[si - 1]

\* a occurs in b as a contiguous piece, compared case-insensitively
Occurs(a, b) ==
    \E k \in 0..(Len(b) - Len(a)) :
        \A j \in 1..Len(a) : LowerSym(b[k + j]) = LowerSym(a[j])

Bit(b) == IF b THEN 1 ELSE 0

\* C4: when the classifier reports used_raw_output for the terminal result,
\* the recorded evaluation has quality_score 0.0 and can_solve, issue_found
\* and solution_found false, and so has the row, whatever the summary and
\* the challenge.
C4_RawOutputScoresZero ==
    (JustRecorded /\ used_raw_output) =>
        /\ evaluation.quality_score = Zero
        /\ ~evaluation.can_solve
        /\ ~evaluation.issue_found
        /\ ~evaluation.solution_found
        /\ Last(rows).quality_score = Zero
        /\ ~Last(rows).can_solve

\* C4 witness: a raw-output summary that contains the expected issue and
\* that the scorer would have passed
C4_RawButMatching ==
    /\ JustRecorded /\ used_raw_output
    /\ challenge.expected_issue # <<>>
    /\ Occurs(challenge.expected_issue, stdout)
    /\ evaluate_summary_quality(stdout, challenge).can_solve

\* C5: for every summary and challenge, evaluate_summary_quality returns
\* issue_found (solution_found) true iff the expected text is empty or occurs
\* case-insensitively in the summary, phrases_found = the number of key
\* phrases that occur, phrase_coverage = phrases_found / total (1 without key
\* phrases), quality_score = 0.4[issue] + 0.4[solution] + 0.2 coverage, and
\* can_solve iff quality_score >= 0.7; a scored scenario records that value.
C5_ScorerFormula ==
    LET ev == evaluate_summary_quality(stdout, challenge)
        total == Len(challenge.key_phrases)
        found == Cardinality({i \in 1..total : Occurs(challenge.key_phrases[i], stdout)})
        covN == IF total = 0 THEN 1 ELSE found
        covD == IF total = 0 THEN 1 ELSE total
        issue == challenge.expected_issue = <<>> \/ Occurs(challenge.expected_issue, stdout)
        solution == challenge.expected_solution = <<>>
                        \/ Occurs(challenge.expected_solution, stdout)
    IN  /\ ev.issue_found <=> issue
        /\ ev.solution_found <=> solution
        /\ ev.phrases_found = found
        /\ ev.total_phrases = total
        /\ ev.phrase_coverage.n * covD = covN * ev.phrase_coverage.d
        /\ ev.quality_score.n * 5 * covD
             = (2 * Bit(issue) * covD + 2 * Bit(solution) * covD + covN) * ev.quality_score.d
        /\ ev.can_solve <=> (10 * ev.quality_score.n >= 7 * ev.quality_score.d)
        /\ (JustRecorded /\ ~used_raw_output) => evaluation = ev

\* C5 witness: the summary matches the issue only, of a challenge with an
\* expected solution and two key phrases: 0.4, can_solve false
C5_IssueOnly ==
    /\ JustRecorded /\ ~used_raw_output
    /\ challenge.expected_issue # <<>> /\ evaluation.issue_found
    /\ challenge.expected_solution # <<>> /\ ~evaluation.solution_found
    /\ evaluation.total_phrases = 2 /\ evaluation.phrases_found = 0
    /\ evaluation.quality_score = Frac(2, 5)
    /\ ~evaluation.can_solve

\* C6: the quality_score recorded for a scenario lies in [0, 1], on the
\* scored path and on the raw-output path, and phrases_found never exceeds
\* total_phrases.
C6_ScoreBounded ==
    JustRecorded =>
        /\ 0 <= evaluation.quality_score.n
        /\ evaluation.quality_score.n <= evaluation.quality_score.d
        /\ evaluation.quality_score.d > 0
        /\ Last(rows).quality_score = evaluation.quality_score
        /\ evaluation.phrases_found <= evaluation.total_phrases

\* C6 witness: a scored summary that reaches the upper bound with every key
\* phrase found
C6_FullScore ==
    /\ JustRecorded /\ ~used_raw_output
    /\ evaluation.total_phrases > 0
    /\ evaluation.phrases_found = evaluation.total_phrases
    /\ evaluation.quality_score = One

EmptyChallenge ==
    /\ challenge.expected_issue = <<>>
    /\ challenge.expected_solution = <<>>
    /\ challenge.key_phrases = <<>>

\* C7, as claimed: for a challenge with empty expected_issue,
\* expected_solution and key_phrases the quality evaluation of a scenario
\* gives quality_score 1.0 and can_solve true, whatever the summary.
C7_EmptyChallengeAlwaysPerfect ==
    (JustRecorded /\ EmptyChallenge) =>
        (evaluation.quality_score = One /\ evaluation.can_solve)

\* C7, amended: for such a challenge evaluate_summary_quality returns 1.0 and
\* can_solve true for every summary, and the evaluation of a scenario gives
\* these values unless the classifier reports used_raw_output for the
\* summary; then it gives 0.0 and can_solve false.
C7_EmptyChallengePerfectUnlessRaw ==
    EmptyChallenge =>
        /\ evaluate_summary_quality(stdout, challenge).quality_score = One
        /\ evaluate_summary_quality(stdout, challenge).can_solve
        /\ JustRecorded =>
             IF used_raw_output
             THEN evaluation.quality_score = Zero /\ ~evaluation.can_solve
             ELSE evaluation.quality_score = One /\ evaluation.can_solve

\* C7 witness: an empty challenge scored on a non-empty summary
C7_EmptyChallengeScored ==
    /\ JustRecorded /\ EmptyChallenge /\ ~used_raw_output
    /\ stdout # <<>>
    /\ Last(rows).quality_score = One /\ Last(rows).can_solve

\* C9: the row's needs_full_output is true exactly when used_raw_output is
\* true or quality_score < 0.5, whatever can_solve is.
C9_NeedsFullOutput ==
    JustRecorded =>
        /\ needs_full_output <=>
             (used_raw_output \/ 2 * evaluation.quality_score.n < evaluation.quality_score.d)
        /\ Last(rows).needs_full_output = needs_full_output

\* C9 witness: a scored summary between the two thresholds: needs_full_output
\* false and can_solve false
C9_BetweenThresholds ==
    /\ JustRecorded /\ ~used_raw_output
    /\ evaluation.quality_score = Frac(1, 2)
    /\ ~needs_full_output
    /\ ~evaluation.can_solve

-----------------------------------------------------------------------------
(* Claims about a run                                                      *)

\* the terminal invocation's result as run_command of the quality runner
\* hands it on: on a timeout the partial output joined by a newline, code 124
TerminalText ==
    IF result.kind = "timeout" THEN result.stdout \o <<NL>> \o result.stderr
    ELSE result.stdout
TerminalCode == IF result.kind = "timeout" THEN TimeoutExitCode ELSE result.returncode

\* C8: in the quality runner the classification, the evaluation and the row's
\* exit code and summary all come from the latest invocation's result: the
\* retry's when a retry was made, else the first attempt's.
C8_FromTerminalResult ==
    /\ (runner = "quality" /\ pc = "returned") =>
         /\ stdout = TerminalText
         /\ exit_code = TerminalCode
         /\ output_file = OutputFile(TerminalText)
         /\ used_raw_output = UsedRawOutput(TerminalText)
    /\ JustRecorded =>
         /\ used_raw_output = UsedRawOutput(TerminalText)
         /\ evaluation = ScenarioEvaluation(TerminalText, UsedRawOutput(TerminalText), challenge)
         /\ Last(rows).summary = Clean(TerminalText)
         /\ Last(rows).exit_code = TerminalCode
         /\ Last(rows).can_solve = evaluation.can_solve
         /\ Last(rows).quality_score = evaluation.quality_score

\* C8 witness: a row written after a retry whose output differs from the
\* first attempt's
C8_RowAfterRetry ==
    /\ JustRecorded
    /\ Len(attempts) = 2
    /\ used_raw_output
    /\ output_file = <<>>
    /\ Last(rows).summary = Clean(result.stdout)

\* C10: in the speed runner no temporary input file exists when the
\* orchestrator stands between scenarios or has ended, however the scenario
\* ended.
C10_NoTempFileLeft ==
    (runner = "speed" /\ pc \in {"scenarios", "configs", "models", "exited", "crashed"})
        => tempFiles = {}

\* C11: once main has found the configuration file and the sweep has started,
\* no exception of a single scenario (loading, preparing, invoking, scoring,
\* writing) ends the run: the orchestrator never stops on an uncaught
\* exception, and the only non-zero exit is the one of a missing
\* configuration file, taken before the header is written and before any
\* invocation.
C11_ScenarioFailureNeverAborts ==
    /\ pc # "crashed"
    /\ (pc = "exited" /\ exitStatus = 1) =>
         (~config_present /\ ~header /\ attempts = <<>> /\ rows = <<>>)

\* position of x in a sequence without repetitions
Pos(x, seq) == CHOOSE i \in 1..Len(seq) : seq[i] = x

\* the scenario column of a row: the challenge name or the size factor
RowScenario(r) == IF runner = "quality" THEN r.challenge ELSE r.size_factor

\* row r stands before row t in the iteration order of the sweep
RowBefore(r, t) ==
    LET rm == Pos(r.model, Models)
        tm == Pos(t.model, Models)
        rc == Pos(r.config_file, ConfigFilesOf(r.model))
        tc == Pos(t.config_file, ConfigFilesOf(t.model))
        rs == Pos(RowScenario(r), scenarios)
        ts == Pos(RowScenario(t), scenarios)
    IN  \/ rm < tm
        \/ rm = tm /\ rc < tc
        \/ rm = tm /\ rc = tc /\ rs < ts

\* the rows are in strict iteration order (so no combination has two rows),
\* follow the header, and none belongs to a config file that does not exist
RowsInOrder ==
    /\ rows # <<>> => header
    /\ \A i \in 1..Len(rows) :
         /\ rows[i].config_file \in ExistingConfigs
         /\ \A j \in 1..Len(rows) : i < j => RowBefore(rows[i], rows[j])

\* one step of the run, seen from the result file: the header is written once,
\* on an empty file; a returned result appends exactly one row, the one of the
\* current combination; every other step leaves the rows alone; nothing is
\* invoked for a config file that does not exist
AppendOnlyStep ==
    /\ header' # header => (~header /\ rows = <<>> /\ rows' = <<>>)
    /\ header => header'
    /\ IF pc = "returned"
       THEN /\ Len(rows') = Len(rows) + 1
            /\ SubSeq(rows', 1, Len(rows)) = rows
            /\ Last(rows').model = Model
            /\ Last(rows').config_file = ConfigFile
            /\ RowScenario(Last(rows')) = scenarios[si]
       ELSE rows' = rows
    /\ Len(attempts') > Len(attempts) => ConfigFile \in ExistingConfigs

-----------------------------------------------------------------------------
(* Claims about the classifier and the verdict                             *)

\* C13: the classifier returns used_raw_output = true exactly when the
\* terminal stdout contains, compared case-insensitively, both "output
\* shorter than" and "returning raw output"; one of the two, or neither,
\* gives false.
C13_RawIffBothPhrases ==
    (runner = "quality" /\ pc = "returned") =>
        (used_raw_output <=>
            (Occurs(<<"output shorter than">>, stdout)
                /\ Occurs(<<"returning raw output">>, stdout)))

\* C13 witness: both phrases present, one of them capitalised and not next
\* to the other
C13_RawMixedCase ==
    /\ runner = "quality" /\ pc = "returned"
    /\ used_raw_output
    /\ Len(stdout) = 3
    /\ stdout[1] = "Returning raw output"
    /\ stdout[3] = "output shorter than"

\* C15: in every quality row can_solve is true exactly when the result is
\* not raw output and the expected issue and the expected solution are both
\* found; the key phrases never change the verdict (without issue or
\* solution the score is at most 0.6, with both at least 0.8); no row has
\* can_solve and needs_full_output both true.
C15_CanSolveIffIssueAndSolution ==
    JustRecorded =>
        LET issue == challenge.expected_issue = <<>>
                        \/ Occurs(challenge.expected_issue, stdout)
            solution == challenge.expected_solution = <<>>
                        \/ Occurs(challenge.expected_solution, stdout)
            score == Last(rows).quality_score
        IN  /\ Last(rows).can_solve <=> (~used_raw_output /\ issue /\ solution)
            /\ (~used_raw_output /\ issue /\ solution) => 5 * score.n >= 4 * score.d
            /\ ~(~used_raw_output /\ issue /\ solution) => 5 * score.n <= 3 * score.d
            /\ ~(Last(rows).can_solve /\ Last(rows).needs_full_output)

\* C15 witness: issue and solution found, none of two key phrases: 0.8,
\* can_solve true
C15_NoPhraseStillSolves ==
    /\ JustRecorded /\ ~used_raw_output
    /\ challenge.expected_issue # <<>> /\ challenge.expected_solution # <<>>
    /\ evaluation.total_phrases = 2 /\ evaluation.phrases_found = 0
    /\ Last(rows).quality_score = Frac(4, 5)
    /\ Last(rows).can_solve /\ ~Last(rows).needs_full_output

-----------------------------------------------------------------------------
(* Claims about the output-file extraction                                 *)

\* the lines of the classified output
OutputLines == Split(stdout, <<NL>>)

\* p is seg without its leading and trailing whitespace
Trimmed(p, seg) ==
    \E a \in 1..(Len(seg) + 1) : \E b \in 0..Len(seg) :
        /\ p = SubSeq(seg, a, b)
        /\ \A i \in 1..Len(seg) : (i < a \/ i > b) => IsSpace(seg[i])
        /\ p # <<>> => (~IsSpace(p[1]) /\ ~IsSpace(p[Len(p)]))

\* index of the first line that contains piece m, 0 when there is none
FirstLineWith(m) ==
    IF \E i \in 1..Len(OutputLines) : In(m, OutputLines[i])
    THEN CHOOSE i \in 1..Len(OutputLines) :
            /\ In(m, OutputLines[i])
            /\ \A j \in 1..(i - 1) : ~In(m, OutputLines[j])
    ELSE 0

\* C14, as claimed: the extraction returns no path for an output without
\* "available at", and for an output with a line "... available at <path>"
\* the path after "available at " on the first such line, trimmed; later
\* lines are ignored.
C14_PathAfterAvailableAt ==
    (runner = "quality" /\ pc = "returned") =>
        LET k == FirstLineWith(AvailableAt)
        IN  IF k = 0 THEN output_file = <<>>
            ELSE LET l == OutputLines[k]
                     i == FindFrom(AvailableAt, l, 1)
                 IN  /\ Len(output_file) = 1
                     /\ Trimmed(output_file[1], SubSeq(l, i + Len(AvailableAt), Len(l)))

\* C14, amended: the marker is 'complete output is available at'.  Without a
\* line that contains it there is no path; else the first line that contains
\* it decides and later lines are ignored: the path is what stands between
\* the first 'available at ' of that line and the next one (or the end of the
\* line), trimmed, and there is no path when that line has no 'available at '.
C14_PathAfterCompleteMarker ==
    (runner = "quality" /\ pc = "returned") =>
        LET k == FirstLineWith(CompleteMarker)
        IN  IF k = 0 THEN output_file = <<>>
            ELSE LET l == OutputLines[k]
                     i == FindFrom(AvailableAt, l, 1)
                     rest == SubSeq(l, i + Len(AvailableAt), Len(l))
                     n == FindFrom(AvailableAt, rest, 1)
                     seg == IF n = 0 THEN rest ELSE SubSeq(rest, 1, n - 1)
                 IN  IF i = 0 THEN output_file = <<>>
                     ELSE /\ Len(output_file) = 1
                          /\ Trimmed(output_file[1], seg)

\* C14 witness: a line with the delimiter but not the marker, then two
\* announcements with different paths, the first with blanks around its path
C14_FirstOfTwoPaths ==
    /\ runner = "quality" /\ pc = "returned"
    /\ Len(OutputLines) = 3
    /\ FirstLineWith(AvailableAt) = 1
    /\ FirstLineWith(CompleteMarker) = 2
    /\ In(CompleteMarker, OutputLines[3])
    /\ In(<<"/tmp/x.out">>, OutputLines[3])
    /\ output_file = << <<"/tmp/y.out">> >>

=============================================================================
